---- MODULE Spec2Model ----
(***************************************************************************)
(* Rollout listing of codex-rs/core (session_manager.rs): a paginated,     *)
(* newest-first walk over sessions/YYYY/MM/DD/rollout-<ts>-<uuid>.jsonl,   *)
(* run while external writers create files.                                *)
(*                                                                         *)
(* Representation.                                                         *)
(*  - A directory name is the text <<kind, n>>: "plain" is the decimal     *)
(*    text of n, "padded" the same digits behind an extra zero, "alpha" a  *)
(*    name that is no number.  str::parse maps the first two to n.         *)
(*  - A timestamp text YYYY-MM-DDThh-mm-ss is the tuple <<y, m, d, s>> of  *)
(*    its fields (s is the time of day in seconds); the OffsetDateTime it  *)
(*    parses to is a number of seconds, ordered chronologically.           *)
(*  - A uuid text is <<form, n>>: "lower" is what Display prints, "upper"  *)
(*    the same digits in upper case (Uuid::parse_str accepts both and      *)
(*    yields the same Uuid n), "nonhex" a text that is no uuid.            *)
(*  - A file is [dir |-> <<ytext, mtext, dtext>>, name |-> [pre, ts, id,   *)
(*    suf], body].  A directory exists when some file lies below it.       *)
(*    Its body is None when the file cannot be opened, else Some(lines);   *)
(*    a line is <<kind, v>>: "json" is the text of the JSON value v,       *)
(*    "blank" is empty or white space, "garbage" is no JSON, "undecodable" *)
(*    is a line whose bytes the reader fails to decode.                    *)
(*  - Option: None is <<>>, Some(x) is <<x>>.                              *)
(***************************************************************************)
EXTENDS Integers, Sequences, FiniteSets, TLC

(* ------------------------------ bounds -------------------------------- *)
MaxName == 8
MaxFiles == 3
MaxPageSize == 2

\* session_manager.rs:37 (50_000 there; scaled so that the cap is reachable)
MAX_SCAN_FILES == 2

\* session_manager.rs:37, the value of the source: no tree within the bounds
\* reaches it
SOURCE_MAX_SCAN_FILES == 50000

\* session_manager.rs:130, the max_records passed to read_first_jsonl_records
HEAD_RECORDS == 5

None == <<>>
Some(x) == <<x>>

SESSIONS_PREFIX == "rollout-"
SESSIONS_SUFFIX == ".jsonl"

(* --------------------------- filename codec --------------------------- *)


\* Variant: the month is not range-checked.
ParseTimestampAnyMonth(t) ==
    IF /\ t[1] \in 0..9999
       /\ t[3] \in 1..31
       /\ t[4] \in 0..86399
    THEN Some((((t[1] * 12 + (t[2] - 1)) * 31) + (t[3] - 1)) * 86400 + t[4])
    ELSE None

\* PrimitiveDateTime::parse(.., "[year]-[month]-[day]T[hour]-[minute]-[second]")
\* followed by assume_utc(): the fields must be in range.
ParseTimestamp(t) ==
    IF /\ t[1] \in 0..9999
       /\ t[2] \in 1..12
       /\ t[3] \in 1..31
       /\ t[4] \in 0..86399
    THEN Some((((t[1] * 12 + (t[2] - 1)) * 31) + (t[3] - 1)) * 86400 + t[4])
    ELSE None


\* Variant: the month is printed zero-based.
FormatTimestampMonthFromZero(ts) ==
    LET s == ts % 86400
        dd == ts \div 86400
        d == (dd % 31) + 1
        mm == dd \div 31
        m == mm % 12
        y == mm \div 12
    IN <<y, m, d, s>>

\* OffsetDateTime::format with the same description.
FormatTimestamp(ts) ==
    LET s == ts % 86400
        dd == ts \div 86400
        d == (dd % 31) + 1
        mm == dd \div 31
        m == (mm % 12) + 1
        y == mm \div 12
    IN <<y, m, d, s>>

\* Uuid::parse_str
ParseUuid(u) == IF u[1] \in {"lower", "upper"} THEN Some(u[2]) ELSE None

\* Display for Uuid
FormatUuid(id) == <<"lower", id>>

parse_timestamp_uuid_from_filename(name) ==
    IF name.pre # SESSIONS_PREFIX \/ name.suf # SESSIONS_SUFFIX THEN None
    ELSE LET uuid == ParseUuid(name.id) IN
         IF uuid = None THEN None
         ELSE LET ts == ParseTimestamp(name.ts) IN
              IF ts = None THEN None
              ELSE Some(<<ts[1], uuid[1]>>)

(* ---------------------------- cursor codec ---------------------------- *)

\* Variant: the id half is taken as it comes, whether or not it is a uuid.
parse_cursor_any_id(token) ==
    IF Len(token) < 2 THEN None
    ELSE IF Len(token) > 2 THEN None
    ELSE LET ts == ParseTimestamp(token[1]) IN
         IF ts = None THEN None
         ELSE Some(<<ts[1], token[2][2]>>)

\* A token is the sequence of its '|'-separated parts.
parse_cursor(token) ==
    IF Len(token) < 2 THEN None
    ELSE IF Len(token) > 2 THEN None
    ELSE LET uuid == ParseUuid(token[2]) IN
         IF uuid = None THEN None
         ELSE LET ts == ParseTimestamp(token[1]) IN
              IF ts = None THEN None
              ELSE Some(<<ts[1], uuid[1]>>)

build_next_cursor(items) ==
    IF items = <<>> THEN None
    ELSE LET last == items[Len(items)]
             key == parse_timestamp_uuid_from_filename(last.path.name)
         IN IF key = None THEN None
            ELSE Some(<<FormatTimestamp(key[1][1]), FormatUuid(key[1][2])>>)

(* ---------------------------- shard walker ---------------------------- *)

\* str::parse::<u16>() / str::parse::<u8>() on a directory name.
ParseNum(text) == IF text[1] \in {"plain", "padded"} THEN Some(text[2]) ELSE None

\* All orders in which a directory can enumerate the entries S.
Enumerations(S) ==
    {p \in [1..Cardinality(S) -> S] : \A i, j \in 1..Cardinality(S) : i # j => p[i] # p[j]}

\* The paths of the immediate subdirectories of parent.
SubDirs(tree, parent) ==
    {SubSeq(f.dir, 1, Len(parent) + 1) :
        f \in {g \in tree : SubSeq(g.dir, 1, Len(parent)) = parent}}

DirRank(path) == ParseNum(path[Len(path)])[1]

\* Variant: the subdirectories are taken in enumeration order.
collect_dirs_unsorted(tree, parent) ==
    Enumerations({p \in SubDirs(tree, parent) : ParseNum(p[Len(p)]) # None})

\* The parsable subdirectories of parent after the stable sort by
\* Reverse(parsed name): names of equal number keep their enumeration order.
collect_dirs_desc(tree, parent) ==
    LET dirs == {p \in SubDirs(tree, parent) : ParseNum(p[Len(p)]) # None} IN
    {p \in Enumerations(dirs) :
        \A i, j \in 1..Cardinality(dirs) : i < j => DirRank(p[i]) >= DirRank(p[j])}

\* The closure passed to collect_files by traverse_directories_for_paths.
IsRollout(f) ==
    /\ f.name.pre = SESSIONS_PREFIX
    /\ f.name.suf = SESSIONS_SUFFIX
    /\ parse_timestamp_uuid_from_filename(f.name) # None

KeyOf(f) == parse_timestamp_uuid_from_filename(f.name)[1]

\* Variant: the files of every day of the month are listed.
collect_files_of_month(tree, day) ==
    {f \in tree : SubSeq(f.dir, 1, 2) = SubSeq(day, 1, 2) /\ IsRollout(f)}

collect_files(tree, day) == {f \in tree : f.dir = day /\ IsRollout(f)}

KeyLess(a, b) == a[1] < b[1] \/ (a[1] = b[1] /\ a[2] < b[2])

\* Variant: the sort key is the timestamp alone.
SortDayFilesByTimestamp(S) ==
    {p \in Enumerations(S) : \A i, j \in 1..Cardinality(S) : i < j => KeyOf(p[i])[1] >= KeyOf(p[j])[1]}

\* Variant: the day's files are left in enumeration order.
SortDayFilesNot(S) == Enumerations(S)

\* day_files.sort_by_key(|..| (Reverse(*ts), Reverse(*sid))) on an enumeration.
SortDayFiles(S) ==
    {p \in Enumerations(S) : \A i, j \in 1..Cardinality(S) : i < j => ~KeyLess(KeyOf(p[i]), KeyOf(p[j]))}

(* ------------------------------ head reader --------------------------- *)

\* Iterator::take
Take(s, n) == IF Len(s) <= n THEN s ELSE SubSeq(s, 1, n)

\* lines 234-246: the loop body over the lines handed to it
RECURSIVE CollectRecords(_, _)
CollectRecords(lines, head) ==
    IF lines = <<>> THEN head
    ELSE LET line == Head(lines) IN
         IF line[1] = "undecodable" THEN CollectRecords(Tail(lines), head)
         ELSE IF line[1] = "blank" THEN CollectRecords(Tail(lines), head)
         ELSE IF line[1] = "json" THEN CollectRecords(Tail(lines), Append(head, line[2]))
         ELSE CollectRecords(Tail(lines), head)

\* lines 228-248: None is Err (the file does not open), Some(head) is Ok(head)
read_first_jsonl_records(file, max_records) ==
    IF file.body = None THEN None
    ELSE Some(CollectRecords(Take(file.body[1], max_records), <<>>))

\* line 130: read_first_jsonl_records(&path, 5).unwrap_or_default()
HeadOrDefault(file) ==
    LET r == read_first_jsonl_records(file, HEAD_RECORDS) IN IF r = None THEN <<>> ELSE r[1]

(* ------------------------ traverse_directories_for_paths -------------- *)

UNIX_EPOCH == 0
NIL_UUID == 0

\* Variant: the walk starts as if the anchor had been passed.
InitWalkPassed(ps, anchor) ==
    [pc |-> "list_years",
     max_scan_files |-> MAX_SCAN_FILES,
     head_reads |-> 0,
     page_size |-> ps,
     items |-> <<>>,
     scanned_files |-> 0,
     anchor_passed |-> TRUE,
     anchor_ts |-> IF anchor = None THEN UNIX_EPOCH ELSE anchor[1][1],
     anchor_id |-> IF anchor = None THEN NIL_UUID ELSE anchor[1][2],
     year_dirs |-> <<>>,
     month_dirs |-> <<>>,
     day_dirs |-> <<>>,
     day_files |-> <<>>]

\* The locals of traverse_directories_for_paths before the first statement
\* that reads the filesystem.  The *_dirs and day_files fields hold what the
\* corresponding `for` loop has still to visit; max_scan_files is the
\* MAX_SCAN_FILES the walk runs with, head_reads counts the calls of
\* read_first_jsonl_records.
InitWalk(ps, anchor) ==
    [pc |-> "list_years",
     max_scan_files |-> MAX_SCAN_FILES,
     head_reads |-> 0,
     page_size |-> ps,
     items |-> <<>>,
     scanned_files |-> 0,
     anchor_passed |-> (anchor = None),
     anchor_ts |-> IF anchor = None THEN UNIX_EPOCH ELSE anchor[1][1],
     anchor_id |-> IF anchor = None THEN NIL_UUID ELSE anchor[1][2],
     year_dirs |-> <<>>,
     month_dirs |-> <<>>,
     day_dirs |-> <<>>,
     day_files |-> <<>>]

\* line 90
StepListYears(x, fs0) ==
    IF x.pc # "list_years" THEN {}
    ELSE {[x EXCEPT !.pc = "year", !.year_dirs = yd] : yd \in collect_dirs_desc(fs0, <<>>)}

\* line 92, the loop is exhausted
StepYearsDone(x) ==
    IF x.pc = "year" /\ x.year_dirs = <<>> THEN {[x EXCEPT !.pc = "ret"]} ELSE {}

\* lines 93-95
StepYearCapBreak(x) ==
    IF x.pc = "year" /\ x.year_dirs # <<>> /\ x.scanned_files >= x.max_scan_files
    THEN {[x EXCEPT !.pc = "ret"]} ELSE {}

\* line 96
StepEnterYear(x, fs0) ==
    IF x.pc = "year" /\ x.year_dirs # <<>> /\ ~(x.scanned_files >= x.max_scan_files)
    THEN {[x EXCEPT !.pc = "month", !.year_dirs = Tail(x.year_dirs), !.month_dirs = md] :
             md \in collect_dirs_desc(fs0, Head(x.year_dirs))}
    ELSE {}

\* line 97, the loop is exhausted
StepMonthsDone(x) ==
    IF x.pc = "month" /\ x.month_dirs = <<>> THEN {[x EXCEPT !.pc = "year"]} ELSE {}

\* lines 98-100
StepMonthCapBreak(x) ==
    IF x.pc = "month" /\ x.month_dirs # <<>> /\ x.scanned_files >= x.max_scan_files
    THEN {[x EXCEPT !.pc = "ret"]} ELSE {}

\* line 101
StepEnterMonth(x, fs0) ==
    IF x.pc = "month" /\ x.month_dirs # <<>> /\ ~(x.scanned_files >= x.max_scan_files)
    THEN {[x EXCEPT !.pc = "day", !.month_dirs = Tail(x.month_dirs), !.day_dirs = dd] :
             dd \in collect_dirs_desc(fs0, Head(x.month_dirs))}
    ELSE {}

\* line 102, the loop is exhausted
StepDaysDone(x) ==
    IF x.pc = "day" /\ x.day_dirs = <<>> THEN {[x EXCEPT !.pc = "month"]} ELSE {}

\* lines 103-105
StepDayCapBreak(x) ==
    IF x.pc = "day" /\ x.day_dirs # <<>> /\ x.scanned_files >= x.max_scan_files
    THEN {[x EXCEPT !.pc = "ret"]} ELSE {}

\* Variant: the cap check before a day is `>` instead of `>=`.
StepEnterDayLateCap(x, fs0) ==
    IF x.pc = "day" /\ x.day_dirs # <<>> /\ ~(x.scanned_files > x.max_scan_files)
    THEN {[x EXCEPT !.pc = "file", !.day_dirs = Tail(x.day_dirs), !.day_files = df] :
             df \in SortDayFiles(collect_files(fs0, Head(x.day_dirs)))}
    ELSE {}

\* lines 106-114
StepEnterDay(x, fs0) ==
    IF x.pc = "day" /\ x.day_dirs # <<>> /\ ~(x.scanned_files >= x.max_scan_files)
    THEN {[x EXCEPT !.pc = "file", !.day_dirs = Tail(x.day_dirs), !.day_files = df] :
             df \in SortDayFiles(collect_files(fs0, Head(x.day_dirs)))}
    ELSE {}

\* line 115, the loop is exhausted
StepFilesDone(x) ==
    IF x.pc = "file" /\ x.day_files = <<>> THEN {[x EXCEPT !.pc = "day"]} ELSE {}

\* Variant: a file of the second of the anchor counts as below the anchor.
BelowAnchorSameSecond(x, key) == key[1] <= x.anchor_ts

\* Variant: the anchor itself counts as below the anchor.
BelowAnchorOrEqual(x, key) ==
    key[1] < x.anchor_ts \/ (key[1] = x.anchor_ts /\ key[2] <= x.anchor_id)

\* line 121
BelowAnchor(x, key) ==
    key[1] < x.anchor_ts \/ (key[1] = x.anchor_ts /\ key[2] < x.anchor_id)

\* Variant: the size test of line 127 lets one more item in.
StepVisitFileLateStop(x) ==
    IF x.pc = "file" /\ x.day_files # <<>> THEN
        LET f == Head(x.day_files)
            counted == [x EXCEPT !.scanned_files = x.scanned_files + 1,
                                 !.day_files = Tail(x.day_files)]
        IN IF counted.scanned_files >= x.max_scan_files /\ Len(x.items) >= x.page_size
           THEN {[counted EXCEPT !.pc = "ret"]}
           ELSE IF ~x.anchor_passed /\ ~BelowAnchor(x, KeyOf(f))
           THEN {counted}
           ELSE LET passed == [counted EXCEPT !.anchor_passed = TRUE] IN
                IF Len(x.items) > x.page_size
                THEN {[passed EXCEPT !.pc = "ret"]}
                ELSE {[passed EXCEPT !.head_reads = x.head_reads + 1,
                                     !.items = Append(x.items,
                                                      [path |-> f, head |-> HeadOrDefault(f)])]}
    ELSE {}

\* lines 115-132, one iteration of the loop over day_files
StepVisitFile(x) ==
    IF x.pc = "file" /\ x.day_files # <<>> THEN
        LET f == Head(x.day_files)
            counted == [x EXCEPT !.scanned_files = x.scanned_files + 1,
                                 !.day_files = Tail(x.day_files)]
        IN IF counted.scanned_files >= x.max_scan_files /\ Len(x.items) >= x.page_size
           THEN {[counted EXCEPT !.pc = "ret"]}
           ELSE IF ~x.anchor_passed /\ ~BelowAnchor(x, KeyOf(f))
           THEN {counted}
           ELSE LET passed == [counted EXCEPT !.anchor_passed = TRUE] IN
                IF Len(x.items) = x.page_size
                THEN {[passed EXCEPT !.pc = "ret"]}
                ELSE {[passed EXCEPT !.head_reads = x.head_reads + 1,
                                     !.items = Append(x.items,
                                                      [path |-> f, head |-> HeadOrDefault(f)])]}
    ELSE {}

\* lines 137-143
PageOf(x) ==
    [items |-> x.items,
     next_cursor |-> build_next_cursor(x.items),
     scanned_files |-> x.scanned_files,
     reached_scan_cap |-> (x.scanned_files >= x.max_scan_files)]

\* Every statement of the walk, on a filesystem that does not change.
WalkSteps(x, fs0) ==
    StepListYears(x, fs0) \cup StepYearsDone(x) \cup StepYearCapBreak(x)
        \cup StepEnterYear(x, fs0) \cup StepMonthsDone(x) \cup StepMonthCapBreak(x)
        \cup StepEnterMonth(x, fs0) \cup StepDaysDone(x) \cup StepDayCapBreak(x)
        \cup StepEnterDay(x, fs0) \cup StepFilesDone(x) \cup StepVisitFile(x)

RECURSIVE RunWalk(_, _)
RunWalk(x, fs0) ==
    IF x.pc = "ret" THEN {PageOf(x)}
    ELSE UNION {RunWalk(y, fs0) : y \in WalkSteps(x, fs0)}

\* The pages get_conversations can return when nothing writes during the call.
ListPages(fs0, ps, cur) ==
    RunWalk(InitWalk(ps, IF cur = None THEN None ELSE parse_cursor(cur[1])), fs0)

(* ------------------------------- state --------------------------------- *)

VARIABLES
    fs,            \* the files below <codex_home>/sessions
    phase,         \* "idle": no call yet, "walk": the worker runs, "done": returned
    page_size,     \* argument of the current get_conversations call
    cursor,        \* argument of the current call: None or Some(token)
    w,             \* locals of traverse_directories_for_paths
    result,        \* None, or Some(page) once the call has returned
    served,        \* history: the files returned by the earlier pages of the chain
    capSeen,       \* history: an earlier page of the chain reported reached_scan_cap
    dirty,         \* history: a file was created since the chain began
    snaps,         \* history: the filesystem at the start of the call, and with
                   \* CreateFileWatched every state it went through since
    seen,          \* history: what each day directory held when the walk listed it
    lastDayFiles,  \* history: the number of rollout files in the last day entered
    env,           \* what the filesystem refuses: [root, denied, lost] (see Sound)
    err,           \* "" or the error the call returned: "read_dir", "join"
    hd,            \* read_first_jsonl_records on its own: [file, head]
    cfg,           \* config.toml and the persist_overrides call (see IdleCfg)
    rt             \* the UnixLocalExecRuntime and its callers (see IdleRt)

vars == <<fs, phase, page_size, cursor, w, result, served, capSeen, dirty, snaps, seen,
          lastDayFiles, env, err, hd, cfg, rt>>

\* The variables the listing does not touch.
aside == <<hd, cfg, rt>>

\* A filesystem without faults: the sessions root is a directory, read_dir
\* succeeds on every directory (denied holds the paths on which it fails) and
\* yields every entry (lost holds the files whose entry it yields as Err).
Sound == [root |-> "dir", denied |-> {}, lost |-> {}]

IdleHd == [file |-> [body |-> None], head |-> None]

IdleCfg == [pc |-> "idle"]

\* No runtime has been made.
IdleRt == [lock |-> "none"]

hist == <<served, capSeen, dirty, snaps, seen, lastDayFiles>>

(* --------------------------- external writer --------------------------- *)

\* The dates on which sessions start: consecutive days that span a change of
\* day, of month and of year (the window starts on the second day of a month;
\* two days a month and two months a year are enough for that).
DateOf(n) == <<(n \div 4) + 1, ((n \div 2) % 2) + 1, (n % 2) + 1>>
PageSizes == 0..MaxPageSize

DirOf(y, m, d) == <<<<"plain", y>>, <<"plain", m>>, <<"plain", d>>>>

\* The file a recorder creates for a session started on y-m-d with uuid id:
\* sessions/YYYY/MM/DD/rollout-YYYY-MM-DDThh-mm-ss-<uuid>.jsonl
RolloutFile(y, m, d, id) ==
    [dir |-> DirOf(y, m, d),
     name |-> [pre |-> SESSIONS_PREFIX, ts |-> <<y, m, d, 0>>, id |-> <<"lower", id>>,
               suf |-> SESSIONS_SUFFIX],
     body |-> Some(<<<<"json", id>>>>)]

\* The n-th session: two sessions start on each date, at the same second,
\* with uuids 1 and 2.
WriterFile(n) ==
    LET dt == DateOf((n + 1) \div 2) IN RolloutFile(dt[1], dt[2], dt[3], 2 - (n % 2))

WriterFiles == {WriterFile(n) : n \in 1..MaxName}

Created(f) ==
    /\ Cardinality(fs) < MaxFiles
    /\ f \notin fs
    /\ fs' = fs \cup {f}
    /\ dirty' = (phase # "idle")
    /\ UNCHANGED <<phase, page_size, cursor, w, result, served, capSeen, seen, lastDayFiles>>
    /\ UNCHANGED <<env, err, aside>>

\* A recorder of another session creates its rollout file.
CreateFile ==
    \E f \in WriterFiles : Created(f) /\ UNCHANGED snaps

\* The same step, with the history of the filesystem states of the call kept.
CreateFileWatched ==
    \E f \in WriterFiles :
        /\ Created(f)
        /\ snaps' = IF phase = "walk" THEN snaps \cup {fs \cup {f}} ELSE snaps

(* --------------------------- get_conversations ------------------------- *)

\* lines 42-63 of a call that starts a chain (no cursor)
Start ==
    /\ phase \in {"idle", "done"}
    /\ env.root = "dir"
    /\ \E ps \in PageSizes :
        /\ page_size' = ps
        /\ w' = InitWalk(ps, None)
    /\ cursor' = None
    /\ phase' = "walk"
    /\ result' = None
    /\ served' = {}
    /\ capSeen' = FALSE
    /\ dirty' = FALSE
    /\ snaps' = {fs}
    /\ seen' = {}
    /\ lastDayFiles' = 0
    /\ err' = ""
    /\ UNCHANGED <<fs, env, aside>>

\* lines 42-63 of a call that continues the chain with the returned next_cursor
FollowUp ==
    /\ phase = "done"
    /\ env.root = "dir"
    /\ err = ""
    /\ result[1].next_cursor # None
    /\ cursor' = result[1].next_cursor
    /\ w' = InitWalk(page_size, parse_cursor(result[1].next_cursor[1]))
    /\ phase' = "walk"
    /\ result' = None
    /\ served' = served \cup {result[1].items[i].path : i \in 1..Len(result[1].items)}
    /\ capSeen' = (capSeen \/ result[1].reached_scan_cap)
    /\ snaps' = {fs}
    /\ seen' = {}
    /\ lastDayFiles' = 0
    /\ UNCHANGED <<fs, page_size, dirty, env, err, aside>>

\* The directory whose read_dir is the next statement of the walk (lines 90,
\* 96, 101, 106), or <<<<"none", 0>>>> when the next statement lists nothing.
NextDir(x) ==
    IF x.pc = "list_years" THEN <<>>
    ELSE IF x.scanned_files >= x.max_scan_files THEN <<<<"none", 0>>>>
    ELSE IF x.pc = "year" /\ x.year_dirs # <<>> THEN Head(x.year_dirs)
    ELSE IF x.pc = "month" /\ x.month_dirs # <<>> THEN Head(x.month_dirs)
    ELSE IF x.pc = "day" /\ x.day_dirs # <<>> THEN Head(x.day_dirs)
    ELSE <<<<"none", 0>>>>

\* What a statement of the walk leaves alone.
walkFrame == <<fs, phase, page_size, cursor, result, served, capSeen, dirty, snaps, seen,
               lastDayFiles, env, err, aside>>

ListYears ==
    /\ phase = "walk"
    /\ <<>> \notin env.denied
    /\ w' \in StepListYears(w, fs)
    /\ UNCHANGED walkFrame

YearsDone ==
    /\ phase = "walk"
    /\ w' \in StepYearsDone(w)
    /\ UNCHANGED walkFrame

YearCapBreak ==
    /\ phase = "walk"
    /\ w' \in StepYearCapBreak(w)
    /\ UNCHANGED walkFrame

EnterYear ==
    /\ phase = "walk"
    /\ NextDir(w) \notin env.denied
    /\ w' \in StepEnterYear(w, fs)
    /\ UNCHANGED walkFrame

MonthsDone ==
    /\ phase = "walk"
    /\ w' \in StepMonthsDone(w)
    /\ UNCHANGED walkFrame

MonthCapBreak ==
    /\ phase = "walk"
    /\ w' \in StepMonthCapBreak(w)
    /\ UNCHANGED walkFrame

EnterMonth ==
    /\ phase = "walk"
    /\ NextDir(w) \notin env.denied
    /\ w' \in StepEnterMonth(w, fs)
    /\ UNCHANGED walkFrame

DaysDone ==
    /\ phase = "walk"
    /\ w' \in StepDaysDone(w)
    /\ UNCHANGED walkFrame

DayCapBreak ==
    /\ phase = "walk"
    /\ w' \in StepDayCapBreak(w)
    /\ UNCHANGED walkFrame

FilesDone ==
    /\ phase = "walk"
    /\ w' \in StepFilesDone(w)
    /\ UNCHANGED walkFrame

VisitFile ==
    /\ phase = "walk"
    /\ w' \in StepVisitFile(w)
    /\ UNCHANGED walkFrame

EnterDay ==
    /\ phase = "walk"
    /\ NextDir(w) \notin env.denied
    /\ w' \in StepEnterDay(w, fs \ env.lost)
    /\ seen' = seen \cup {f \in fs : f.dir = Head(w.day_dirs)}
    /\ lastDayFiles' = Cardinality(collect_files(fs \ env.lost, Head(w.day_dirs)))
    /\ UNCHANGED <<fs, phase, page_size, cursor, result, served, capSeen, dirty, snaps>>
    /\ UNCHANGED <<env, err, aside>>

\* The `?` of lines 90, 96, 101 and 112, then the `??` of line 65: read_dir
\* fails on the directory the walk is about to list.
ReadDirFails ==
    /\ phase = "walk"
    /\ NextDir(w) \in env.denied
    /\ w' = [w EXCEPT !.pc = "err"]
    /\ phase' = "done"
    /\ err' = "read_dir"
    /\ UNCHANGED <<fs, page_size, cursor, result, hist, env, aside>>

\* lines 60-65: the blocking task does not complete (it panics or the runtime
\* drops it), the JoinError becomes an io::Error
JoinFails ==
    /\ phase = "walk"
    /\ w' = [w EXCEPT !.pc = "err"]
    /\ phase' = "done"
    /\ err' = "join"
    /\ UNCHANGED <<fs, page_size, cursor, result, hist, env, aside>>

\* lines 137-143 and 64-66
Return ==
    /\ phase = "walk"
    /\ w.pc = "ret"
    /\ result' = Some(PageOf(w))
    /\ phase' = "done"
    /\ UNCHANGED <<fs, page_size, cursor, w, hist, env, err, aside>>

Init ==
    /\ fs = {}
    /\ phase = "idle"
    /\ page_size = 0
    /\ cursor = None
    /\ w = InitWalk(0, None)
    /\ result = None
    /\ served = {}
    /\ capSeen = FALSE
    /\ dirty = FALSE
    /\ snaps = {}
    /\ seen = {}
    /\ lastDayFiles = 0
    /\ env = Sound
    /\ err = ""
    /\ hd = IdleHd
    /\ rt = IdleRt
    /\ cfg = IdleCfg

Next ==
    \/ CreateFile
    \/ Start
    \/ FollowUp
    \/ ListYears
    \/ YearsDone
    \/ YearCapBreak
    \/ EnterYear
    \/ MonthsDone
    \/ MonthCapBreak
    \/ EnterMonth
    \/ DaysDone
    \/ DayCapBreak
    \/ EnterDay
    \/ FilesDone
    \/ VisitFile
    \/ Return

Spec == Init /\ [][Next]_vars

(* ------------------------------ properties ----------------------------- *)

Page == result[1]
ItemPaths(its) == {its[i].path : i \in 1..Len(its)}
LastKey(its) == KeyOf(its[Len(its)].path)
Rollouts(S) == {f \in S : IsRollout(f)}

\* Nothing was written since the current call began.
Quiet == snaps = {fs}

\* Page q continues page p with neither gap nor overlap, on the files S.
Continues(p, q, S) ==
    LET below == {f \in Rollouts(S) : KeyLess(KeyOf(f), LastKey(p.items))} IN
    /\ \A i \in 1..Len(q.items) : KeyLess(KeyOf(q.items[i].path), LastKey(p.items))
    /\ below # {} =>
        /\ q.items # <<>>
        /\ \A f \in below : ~KeyLess(KeyOf(q.items[1].path), KeyOf(f))
    /\ ItemPaths(q.items) \cap ItemPaths(p.items) = {}
    /\ \A f \in below :
        (q.items # <<>> /\ KeyLess(LastKey(q.items), KeyOf(f))) => f \in ItemPaths(q.items)

\* C1 (as claimed): the page returned for the next_cursor of a page, with no
\* write in between and any page_size >= 1, holds only keys below the anchor,
\* starts at the largest key below the anchor, and neither repeats nor skips
\* a file.
C1_ResumeNoGapNoOverlap ==
    (phase = "done" /\ Quiet /\ Page.next_cursor # None) =>
        \A ps \in 1..MaxPageSize :
            \A q \in ListPages(fs, ps, Page.next_cursor) : Continues(Page, q, fs)

C4_CapPageResumable ==
    (phase = "done" /\ ~dirty /\ capSeen /\ Page.next_cursor = None) =>
        \A f \in Rollouts(fs) :
            (\E g \in served : KeyLess(KeyOf(f), KeyOf(g))) =>
                f \in served \cup ItemPaths(Page.items)

\* C7: no year, month or day is entered once scanned_files >= cap; a call
\* ends with scanned_files < cap + the rollout files of the last day it
\* entered and with reached_scan_cap = (scanned_files >= cap); a file that
\* brings the count to the cap while the page is full ends the walk.
C7_Step ==
    /\ (\/ w.pc = "year" /\ w'.pc = "month"
        \/ w.pc = "month" /\ w'.pc = "day"
        \/ w.pc = "day" /\ w'.pc = "file") => w.scanned_files < MAX_SCAN_FILES
    /\ (phase = "walk" /\ phase' = "done") =>
        /\ result'[1].scanned_files < MAX_SCAN_FILES + lastDayFiles
        /\ result'[1].reached_scan_cap = (result'[1].scanned_files >= MAX_SCAN_FILES)
    /\ (/\ w.pc = "file"
        /\ w'.scanned_files = w.scanned_files + 1
        /\ w'.scanned_files >= MAX_SCAN_FILES
        /\ Len(w.items) >= w.page_size) => w'.pc = "ret"

C7_SoftCap == [][C7_Step]_vars

\* C7 witness: a call that ended above the cap, inside a day.
C7_Witness ==
    /\ phase = "done"
    /\ Page.scanned_files > MAX_SCAN_FILES
    /\ Page.reached_scan_cap
    /\ lastDayFiles > 1

\* C9 (as claimed): a page after whose last item no rollout file remains has
\* next_cursor = None.
C9_NoCursorAtEnd ==
    (/\ phase = "done"
     /\ Quiet
     /\ Page.items # <<>>
     /\ \A f \in Rollouts(fs) : ~KeyLess(KeyOf(f), LastKey(Page.items)))
        => Page.next_cursor = None

(* ------------------ calls with the filesystem history ------------------- *)

NextWatched ==
    \/ CreateFileWatched
    \/ Start
    \/ ListYears
    \/ YearsDone
    \/ YearCapBreak
    \/ EnterYear
    \/ MonthsDone
    \/ MonthCapBreak
    \/ EnterMonth
    \/ DaysDone
    \/ DayCapBreak
    \/ EnterDay
    \/ FilesDone
    \/ VisitFile
    \/ Return

\* First-page calls while recorders create files; every state the filesystem
\* goes through during a call is kept in snaps.
SpecWatched == Init /\ [][NextWatched]_vars

\* C5 (as claimed): the page of a call equals the page of the same call on
\* the filesystem as it was at one instant of the call.
C5_PointInTime ==
    phase = "done" => \E s \in snaps : Page \in ListPages(s, page_size, cursor)

\* C5 (amended): the page of a call equals the page of the same call on the
\* filesystem made of every day directory as it was when the walk listed it.
C5_PerShardPointInTime ==
    phase = "done" => Page \in ListPages(seen, page_size, cursor)

\* C5 witness: a call during which files were created in two day shards and
\* whose page is the page of no single instant.
C5_Witness ==
    /\ phase = "done"
    /\ Cardinality(snaps) > 2
    /\ Page.items # <<>>
    /\ \A s \in snaps : Page \notin ListPages(s, page_size, cursor)

(* ------------------- trees with names no recorder writes ---------------- *)

\* Files a recorder does not create but a sessions tree can hold: a rollout
\* file whose uuid is spelled in upper case, a rollout file in a day directory
\* whose name has an extra leading zero, and files that miss the filename
\* grammar by one defect.
UpperFile(y, m, d, id) ==
    [RolloutFile(y, m, d, id) EXCEPT !.name.id = <<"upper", id>>]

PaddedDirFile(y, m, d, id) ==
    [RolloutFile(y, m, d, id) EXCEPT !.dir[3] = <<"padded", d>>]

DefectFiles(y, m, d) ==
    {[RolloutFile(y, m, d, 1) EXCEPT !.name.pre = "session-"],
     [RolloutFile(y, m, d, 1) EXCEPT !.name.suf = ".json"],
     [RolloutFile(y, m, d, 1) EXCEPT !.name.ts = <<y, 13, d, 0>>],
     [RolloutFile(y, m, d, 1) EXCEPT !.name.id = <<"nonhex", 1>>]}

\* The odd files lie on one date that has older and newer dates around it.
OddDate == DateOf(3)

OddFiles ==
    {UpperFile(OddDate[1], OddDate[2], OddDate[3], id) : id \in {1, 2}}
        \cup {PaddedDirFile(OddDate[1], OddDate[2], OddDate[3], id) : id \in {1, 2}}
        \cup DefectFiles(OddDate[1], OddDate[2], OddDate[3])

RECURSIVE SubsetsUpTo(_, _)
SubsetsUpTo(S, k) ==
    IF k = 0 THEN {{}}
    ELSE LET smaller == SubsetsUpTo(S, k - 1) IN
         smaller \cup {t \cup {x} : t \in smaller, x \in S}

Trees == SubsetsUpTo(WriterFiles \cup OddFiles, MaxFiles)

InitNames ==
    /\ fs \in Trees
    /\ phase = "idle"
    /\ page_size = 0
    /\ cursor = None
    /\ w = InitWalk(0, None)
    /\ result = None
    /\ served = {}
    /\ capSeen = FALSE
    /\ dirty = FALSE
    /\ snaps = {}
    /\ seen = {}
    /\ lastDayFiles = 0
    /\ env = Sound
    /\ err = ""
    /\ hd = IdleHd
    /\ rt = IdleRt
    /\ cfg = IdleCfg

NextNames ==
    \/ Start
    \/ FollowUp
    \/ ListYears
    \/ YearsDone
    \/ YearCapBreak
    \/ EnterYear
    \/ MonthsDone
    \/ MonthCapBreak
    \/ EnterMonth
    \/ DaysDone
    \/ DayCapBreak
    \/ EnterDay
    \/ FilesDone
    \/ VisitFile
    \/ Return

\* Requests on a tree nobody writes to.
SpecNames == InitNames /\ [][NextNames]_vars

\* The shard sessions/YYYY/MM/DD of the date in the file's own name.
InOwnShard(f) ==
    LET t == FormatTimestamp(KeyOf(f)[1]) IN f.dir = DirOf(t[1], t[2], t[3])

DistinctKeys(S) ==
    \A f, g \in Rollouts(S) : f # g => KeyOf(f) # KeyOf(g)

\* C3: on a tree whose rollout files lie in the shard of their own timestamp
\* and have distinct keys, the items of a page are strictly descending by
\* (timestamp, id), in whatever order the directories enumerate.
C3_PageStrictlyDescending ==
    (/\ phase = "done"
     /\ \A f \in Rollouts(fs) : InOwnShard(f)
     /\ DistinctKeys(fs)) =>
        \A i \in 1..(Len(Page.items) - 1) :
            KeyLess(KeyOf(Page.items[i + 1].path), KeyOf(Page.items[i].path))

\* C3 witness: a page with two items of one day and a third of another day.
C3_Witness ==
    /\ phase = "done"
    /\ DistinctKeys(fs)
    /\ Len(Page.items) >= 2
    /\ Page.items[1].path.dir = Page.items[2].path.dir
    /\ Cardinality({f.dir : f \in Rollouts(fs)}) > 1

\* C6 (as claimed): a call on an unchanged filesystem can return one page
\* only, in whatever order the directories enumerate.
C6_Deterministic ==
    phase = "done" => ListPages(fs, page_size, cursor) = {Page}

\* Two rollout files of one day directory decode to the same key.
KeyClash(S) ==
    \E f, g \in Rollouts(S) : f # g /\ f.dir = g.dir /\ KeyOf(f) = KeyOf(g)

\* Two directories of one parent have names that parse to the same number.
DirClash(S) ==
    \E f, g \in S : \E k \in 1..3 :
        /\ SubSeq(f.dir, 1, k - 1) = SubSeq(g.dir, 1, k - 1)
        /\ f.dir[k] # g.dir[k]
        /\ ParseNum(f.dir[k]) # None
        /\ ParseNum(f.dir[k]) = ParseNum(g.dir[k])

\* C6 (amended): a call on an unchanged filesystem can return one page only,
\* in whatever order the directories enumerate, provided no two files of a
\* day directory decode to the same key and no two directories of one parent
\* parse to the same number.
C6_DeterministicDistinctKeys ==
    (phase = "done" /\ ~KeyClash(fs) /\ ~DirClash(fs)) =>
        ListPages(fs, page_size, cursor) = {Page}

\* C6 witness: a page with two items of one day, one of them spelled in
\* upper case.
C6_Witness ==
    /\ phase = "done"
    /\ ~KeyClash(fs)
    /\ ~DirClash(fs)
    /\ Len(Page.items) >= 2
    /\ Page.items[1].path.dir = Page.items[2].path.dir
    /\ \E i \in 1..2 : Page.items[i].path.name.id[1] = "upper"

MatchesGrammar(name) ==
    /\ name.pre = "rollout-"
    /\ name.suf = ".jsonl"
    /\ name.ts[2] \in 1..12
    /\ name.ts[3] \in 1..31
    /\ name.id[1] \in {"lower", "upper"}

Foreign(S) == {f \in S : ~MatchesGrammar(f.name)}

\* C10: the files whose names miss the grammar change nothing: the pages of
\* a call are the pages of the same call on the tree without them.
C10_ForeignFilesInvisible ==
    phase = "done" =>
        /\ Page \in ListPages(fs \ Foreign(fs), page_size, cursor)
        /\ ListPages(fs, page_size, cursor) = ListPages(fs \ Foreign(fs), page_size, cursor)

\* C10 witness: the walk listed a day that holds a rollout file it returned
\* and a file that misses the grammar.
C10_Witness ==
    /\ phase = "done"
    /\ \E f \in Foreign(seen) : \E i \in 1..Len(Page.items) : Page.items[i].path.dir = f.dir

(* ----------------------- calls with any cursor string ------------------- *)

\* The token the listing prints for the key in the name of f.
TokenOf(f) == <<f.name.ts, f.name.id>>

\* Cursor strings that decode: the token of every name a recorder can write
\* (whether or not the file is in the tree), one of them with the uuid typed
\* in upper case.
GoodTokens ==
    {TokenOf(f) : f \in WriterFiles} \cup {<<WriterFile(1).name.ts, <<"upper", 1>>>>}

\* Cursor strings that do not decode: no '|', a timestamp half with month 13,
\* an id half that is no uuid, and a second '|' (the id half is "<id>|<id>").
BadTokens ==
    {<<WriterFile(1).name.ts>>,
     <<<<1, 13, 1, 0>>, <<"lower", 1>>>>,
     <<WriterFile(1).name.ts, <<"nonhex", 1>>>>,
     <<WriterFile(1).name.ts, <<"lower", 1>>, <<"lower", 1>>>>}

Cursors == {None} \cup {Some(t) : t \in GoodTokens \cup BadTokens}

\* line 58: cursor.and_then(parse_cursor)
AnchorOf(cur) == IF cur = None THEN None ELSE parse_cursor(cur[1])

\* The locals of the walk of a call, with MAX_SCAN_FILES as in the source.
RequestWalk(ps, cur) ==
    [InitWalk(ps, AnchorOf(cur)) EXCEPT !.max_scan_files = SOURCE_MAX_SCAN_FILES]

\* lines 42-63 of a call with any page_size and a cursor string of C
RequestFrom(C) ==
    /\ phase \in {"idle", "done"}
    /\ env.root = "dir"
    /\ \E ps \in PageSizes : \E cur \in C :
        /\ page_size' = ps
        /\ cursor' = cur
        /\ w' = RequestWalk(ps, cur)
    /\ phase' = "walk"
    /\ result' = None
    /\ served' = {}
    /\ capSeen' = FALSE
    /\ dirty' = FALSE
    /\ snaps' = {fs}
    /\ seen' = {}
    /\ lastDayFiles' = 0
    /\ err' = ""
    /\ UNCHANGED <<fs, env, aside>>

Request == RequestFrom(Cursors)

\* The pages such a call can return on a filesystem without faults that
\* nothing writes to.
RequestPages(fs0, ps, cur) == RunWalk(RequestWalk(ps, cur), fs0)

\* Rollout files that lie in the shard of another date: the newest name in
\* the oldest shard and the oldest name in the newest shard.
MisplacedFiles ==
    {[WriterFile(MaxName) EXCEPT !.dir = WriterFile(1).dir],
     [WriterFile(1) EXCEPT !.dir = WriterFile(MaxName).dir]}

\* A second file of the key of WriterFile(5), its uuid typed in upper case.
TwinFile == UpperFile(OddDate[1], OddDate[2], OddDate[3], 1)

InitArgs ==
    /\ fs \in SubsetsUpTo(WriterFiles \cup MisplacedFiles \cup {TwinFile}, MaxFiles)
    /\ phase = "idle"
    /\ page_size = 0
    /\ cursor = None
    /\ w = InitWalk(0, None)
    /\ result = None
    /\ served = {}
    /\ capSeen = FALSE
    /\ dirty = FALSE
    /\ snaps = {}
    /\ seen = {}
    /\ lastDayFiles = 0
    /\ env = Sound
    /\ err = ""
    /\ hd = IdleHd
    /\ rt = IdleRt
    /\ cfg = IdleCfg

\* With MAX_SCAN_FILES as in the source the three cap checks of lines 93, 98
\* and 103 never break.
NextArgs ==
    \/ Request
    \/ ListYears
    \/ YearsDone
    \/ EnterYear
    \/ MonthsDone
    \/ EnterMonth
    \/ DaysDone
    \/ EnterDay
    \/ FilesDone
    \/ VisitFile
    \/ Return

\* Calls with any page_size and any cursor string on a tree nobody writes to.
SpecArgs == InitArgs /\ [][NextArgs]_vars

\* C11: a call whose cursor string does not decode returns Ok, and its page
\* is a page the same call without cursor returns; the two calls have the
\* same possible pages.
C11_MalformedCursorRestarts ==
    (phase = "done" /\ cursor # None /\ cursor[1] \in BadTokens) =>
        /\ err = ""
        /\ Page \in RequestPages(fs, page_size, None)
        /\ RequestPages(fs, page_size, cursor) = RequestPages(fs, page_size, None)

\* C11 witness: a call with a cursor string that does not decode returned
\* the newest file first although older files exist.
C11_Witness ==
    /\ phase = "done"
    /\ cursor # None
    /\ cursor[1] \in BadTokens
    /\ Page.items # <<>>
    /\ \E f \in Rollouts(fs) : KeyLess(KeyOf(f), KeyOf(Page.items[1].path))
    /\ \A f \in Rollouts(fs) : ~KeyLess(KeyOf(Page.items[1].path), KeyOf(f))

(* ------------------------ a filesystem that refuses --------------------- *)

\* The same call without the exists() test of line 48: read_dir of the
\* missing root fails at line 90.
RequestMissingRootListed ==
    /\ phase \in {"idle", "done"}
    /\ env.root = "missing"
    /\ \E ps \in PageSizes : \E cur \in Cursors :
        /\ page_size' = ps
        /\ cursor' = cur
    /\ result' = None
    /\ phase' = "done"
    /\ served' = {}
    /\ capSeen' = FALSE
    /\ dirty' = FALSE
    /\ snaps' = {fs}
    /\ seen' = {}
    /\ lastDayFiles' = 0
    /\ err' = "read_dir"
    /\ UNCHANGED <<fs, w, env, aside>>

\* lines 47-56 of a call made while <codex_home>/sessions does not exist
RequestMissingRoot ==
    /\ phase \in {"idle", "done"}
    /\ env.root = "missing"
    /\ \E ps \in PageSizes : \E cur \in Cursors :
        /\ page_size' = ps
        /\ cursor' = cur
    /\ result' = Some([items |-> <<>>, next_cursor |-> None, scanned_files |-> 0,
                       reached_scan_cap |-> FALSE])
    /\ phase' = "done"
    /\ served' = {}
    /\ capSeen' = FALSE
    /\ dirty' = FALSE
    /\ snaps' = {fs}
    /\ seen' = {}
    /\ lastDayFiles' = 0
    /\ err' = ""
    /\ UNCHANGED <<fs, w, env, aside>>

\* No cursor, one that decodes and one that does not.
FewCursors ==
    {None, Some(TokenOf(WriterFile(4))), Some(<<WriterFile(1).name.ts, <<"nonhex", 1>>>>)}

RequestFew == RequestFrom(FewCursors)

\* The files of the trees that refuse: the sessions of two days of one month,
\* two of them in a second copy that cannot be opened, and a file whose name
\* misses the grammar.
FaultFiles ==
    {WriterFile(n) : n \in 3..6}
        \cup {[WriterFile(n) EXCEPT !.body = None] : n \in {3, 5}}
        \cup {[WriterFile(5) EXCEPT !.name.suf = ".json"]}

\* No two files of a tree have the same path.
OnePerPath(t) == \A f, g \in t : (f.dir = g.dir /\ f.name = g.name) => f = g

\* The directories of a tree, the root included.
DirsOf(t) ==
    {<<>>} \cup {SubSeq(f.dir, 1, k) : f \in t, k \in 1..3}

\* The sessions root is missing, or it holds a tree and at most one thing is
\* refused: read_dir on one directory, or the entry of one file.
InitFaults ==
    /\ fs \in {t \in SubsetsUpTo(FaultFiles, MaxFiles) : OnePerPath(t)}
    /\ env \in {[root |-> "missing", denied |-> {}, lost |-> {}] : x \in {y \in {1} : fs = {}}}
            \cup {Sound}
            \cup {[root |-> "dir", denied |-> {d}, lost |-> {}] : d \in DirsOf(fs)}
            \cup {[root |-> "dir", denied |-> {}, lost |-> {f}] : f \in fs}
    /\ phase = "idle"
    /\ page_size = 0
    /\ cursor = None
    /\ w = InitWalk(0, None)
    /\ result = None
    /\ served = {}
    /\ capSeen = FALSE
    /\ dirty = FALSE
    /\ snaps = {}
    /\ seen = {}
    /\ lastDayFiles = 0
    /\ err = ""
    /\ hd = IdleHd
    /\ rt = IdleRt
    /\ cfg = IdleCfg

NextFaults ==
    \/ RequestFew
    \/ RequestMissingRoot
    \/ ReadDirFails
    \/ JoinFails
    \/ ListYears
    \/ YearsDone
    \/ EnterYear
    \/ MonthsDone
    \/ EnterMonth
    \/ DaysDone
    \/ EnterDay
    \/ FilesDone
    \/ VisitFile
    \/ Return

\* Calls on a filesystem that refuses something.
SpecFaults == InitFaults /\ [][NextFaults]_vars

\* C12: a call made while the sessions root does not exist returns Ok with no
\* item, no next_cursor, scanned_files = 0 and reached_scan_cap = false,
\* whatever its page_size and cursor.
C12_MissingRootIsEmptyPage ==
    (phase = "done" /\ env.root = "missing") =>
        /\ err = ""
        /\ result # None
        /\ Page.items = <<>>
        /\ Page.next_cursor = None
        /\ Page.scanned_files = 0
        /\ ~Page.reached_scan_cap

\* C12 witness: such a call with a positive page_size and a cursor.
C12_Witness ==
    /\ phase = "done"
    /\ env.root = "missing"
    /\ page_size > 0
    /\ cursor # None
    /\ result # None

(* ------------------------------ page size ------------------------------ *)

\* C13: under SpecNames, at every point of the walk and in the page returned
\* the number of items is at most page_size; a call with page_size = 0 has
\* read no file head, and returns no item and no next_cursor.
C13_PageSizeBound ==
    /\ phase \in {"walk", "done"} =>
        /\ Len(w.items) <= page_size
        /\ page_size = 0 => w.head_reads = 0
    /\ (phase = "done" /\ result # None) =>
        /\ Len(Page.items) <= page_size
        /\ page_size = 0 => (Page.items = <<>> /\ Page.next_cursor = None)

\* C13 witness: a walk stopped by a full page of two items, each head read
\* once, with a third rollout file left in the tree.
C13_Witness ==
    /\ phase = "done"
    /\ result # None
    /\ page_size = 2
    /\ Len(Page.items) = 2
    /\ Cardinality(Rollouts(fs)) > 2
    /\ w.head_reads = 2

(* ---------------------------- the head reader --------------------------- *)

MaxLines == 6

\* A line of a rollout file: a JSON value, a blank line, a line that is not
\* JSON, or bytes that are not UTF-8.
Lines ==
    {<<"json", 1>>, <<"json", 2>>, <<"blank", 0>>, <<"garbage", 0>>, <<"undecodable", 0>>}

SeqsUpTo(S, n) == UNION {[1..k -> S] : k \in 0..n}

\* Any file content, and a file that cannot be opened.
InitHead ==
    /\ hd \in {[file |-> [body |-> b], head |-> None] :
                 b \in {None} \cup {Some(ls) : ls \in SeqsUpTo(Lines, MaxLines)}}
    /\ fs = {}
    /\ phase = "idle"
    /\ page_size = 0
    /\ cursor = None
    /\ w = InitWalk(0, None)
    /\ result = None
    /\ served = {}
    /\ capSeen = FALSE
    /\ dirty = FALSE
    /\ snaps = {}
    /\ seen = {}
    /\ lastDayFiles = 0
    /\ env = Sound
    /\ err = ""
    /\ cfg = IdleCfg
    /\ rt = IdleRt

\* line 130: the head of one listed file
ReadHead ==
    /\ hd.head = None
    /\ hd' = [hd EXCEPT !.head = Some(HeadOrDefault(hd.file))]
    /\ UNCHANGED <<fs, phase, page_size, cursor, w, result, served, capSeen, dirty, snaps,
                   seen, lastDayFiles, env, err, cfg, rt>>

NextHead == ReadHead

\* The head reader applied to any file content.
SpecHead == InitHead /\ [][NextHead]_vars

\* The values of the lines of a file that are non-blank and parse as JSON,
\* in file order.
ValidRecords(ls) ==
    LET valid == SelectSeq(ls, LAMBDA l : l[1] = "json")
    IN [i \in 1..Len(valid) |-> valid[i][2]]

\* C14 (as claimed): the head of a file is the sequence of its first
\* min(5, n) valid records, n being the number of valid records of the whole
\* file; blank and unparsable lines do not count toward the limit.
C14_HeadIsFirstFiveRecords ==
    (hd.head # None /\ hd.file.body # None) =>
        LET valid == ValidRecords(hd.file.body[1])
        IN hd.head[1] = Take(valid, 5)

(* ------------------------- what aborts a request ------------------------ *)

\* The directories above and including the day directory of f.
ListedFor(f) == {SubSeq(f.dir, 1, k) : k \in 0..3}

\* C15 (as claimed), under SpecFaults: a call returns an error, and then no
\* page, exactly when the worker failed or the listing of a directory the
\* walk visited failed; a call that returns a page had every directory it
\* visited listed without a fault, and a listed file that cannot be opened has
\* an empty head.
C15_OnlyListingFailuresAbort ==
    (phase = "done" /\ env.root = "dir") =>
        /\ (err # "") <=> (result = None)
        /\ err \in {"", "read_dir", "join"}
        /\ err = "read_dir" => env.denied # {}
        /\ result # None =>
            /\ \A f \in seen : ListedFor(f) \cap env.denied = {}
            /\ <<>> \notin env.denied
            /\ seen \cap env.lost = {}
            /\ \A i \in 1..Len(Page.items) :
                   Page.items[i].path.body = None => Page.items[i].head = <<>>

(* ---------------------------- the config editor ------------------------- *)
(* config_edit.rs.  A text is a sequence of its dot-separated parts, so the  *)
(* key "my.team name" is <<"my", "team name">> and a key is never the same   *)
(* as the path made of its parts.  A path is a sequence of keys.  A document *)
(* is the set of its items <<path, value>>: a table, a string or another     *)
(* scalar; an item below a table has the table's path as a prefix.  The      *)
(* content of config.toml is None (no file) or Some of a text that parses    *)
(* to a document or does not parse.                                          *)

MaxOverrides == 2

K(s) == <<s>>
DottedName == <<"my", "team name">>
TABLE == <<"table">>
Str(text) == <<"str", text>>
Scalar == <<"int", K("3")>>

IsPrefix(p, q) == Len(p) <= Len(q) /\ SubSeq(q, 1, Len(p)) = p

\* table.get(key), followed along a path
Item(doc, path) ==
    IF \E e \in doc : e[1] = path THEN Some((CHOOSE e \in doc : e[1] = path)[2]) ELSE None

\* table[key] = item: what was at the path, and below it, is replaced
SetItem(doc, path, item) ==
    {e \in doc : ~IsPrefix(path, e[1])} \cup {<<path, item>>}

\* str::parse::<DocumentMut>, line 47
parse_document(text) == IF text.valid THEN Some(text.doc) ELSE None

\* doc.to_string(), line 81
to_string(doc) == [valid |-> TRUE, doc |-> doc]

NotToml == [valid |-> FALSE, doc |-> {}]

\* Variant: a non-table item met on the way is left alone and the override
\* is dropped.
RECURSIVE ApplySegmentsKeepScalar(_, _, _, _)
ApplySegmentsKeepScalar(doc, segments, k, value) ==
    IF k = Len(segments) - 1 THEN SetItem(doc, segments, value)
    ELSE LET seg == SubSeq(segments, 1, k + 1)
             created == IF Item(doc, seg) = None THEN SetItem(doc, seg, TABLE) ELSE doc
         IN IF Item(created, seg) # Some(TABLE) THEN doc
            ELSE ApplySegmentsKeepScalar(created, segments, k + 1, value)

\* lines 105-128: the loop over segments[..len - 1], then the assignment of
\* the last segment; k intermediate segments have been descended
RECURSIVE ApplySegments(_, _, _, _)
ApplySegments(doc, segments, k, value) ==
    IF k = Len(segments) - 1 THEN SetItem(doc, segments, value)
    ELSE LET seg == SubSeq(segments, 1, k + 1)
             created == IF Item(doc, seg) = None THEN SetItem(doc, seg, TABLE) ELSE doc
             tabled == IF Item(created, seg) # Some(TABLE)
                       THEN SetItem(created, seg, TABLE) ELSE created
         IN ApplySegments(tabled, segments, k + 1, value)

\* lines 91-129
apply_toml_edit_override_segments(doc, segments, value) ==
    IF segments = <<>> THEN doc ELSE ApplySegments(doc, segments, 0, value)

\* Variant: the profile name is split at its dots into nested tables.
ProfileSegmentsSplit(name, segments) ==
    <<K("profiles")>> \o [i \in 1..Len(name) |-> K(name[i])] \o segments

\* lines 67-71: seg_buf
ProfileSegments(name, segments) == <<K("profiles"), name>> \o segments

\* load_config_as_toml(codex_home).ok() ... get("profile") ... as_str(),
\* lines 55-59
LoadProfile(file) ==
    IF file = None \/ parse_document(file[1]) = None THEN None
    ELSE LET it == Item(parse_document(file[1])[1], <<K("profile")>>)
         IN IF it # None /\ it[1][1] = "str" THEN Some(it[1][2]) ELSE None

\* lines 62-77, from the i-th override on
RECURSIVE ApplyOverrides(_, _, _, _)
ApplyOverrides(doc, effective_profile, overrides, i) ==
    IF i > Len(overrides) THEN doc
    ELSE LET segments == overrides[i].segments
             value == Str(overrides[i].val)
             target == IF effective_profile # None
                          /\ ~(segments # <<>> /\ segments[1] = K("profiles"))
                       THEN ProfileSegments(effective_profile[1], segments)
                       ELSE segments
         IN ApplyOverrides(apply_toml_edit_override_segments(doc, target, value),
                           effective_profile, overrides, i + 1)

\* What can go wrong outside the program: read_to_string fails on an existing
\* file (line 49), create_dir_all (79), NamedTempFile::new_in (80), the write
\* of the temporary file (81), or the rename (82).
Faults == {"none", "read", "mkdir", "tmp", "write", "persist"}

\* Variant: the document is written over config.toml itself, and a write
\* that fails leaves what it had written.
persist_overrides_in_place(file, profile, overrides, fault) ==
    IF file # None /\ fault = "read" THEN [file |-> file, ret |-> "err"]
    ELSE IF file # None /\ parse_document(file[1]) = None THEN [file |-> file, ret |-> "err"]
    ELSE LET doc == IF file = None THEN {} ELSE parse_document(file[1])[1]
             effective_profile == IF profile # None THEN profile ELSE LoadProfile(file)
             edited == ApplyOverrides(doc, effective_profile, overrides, 1)
         IN IF fault \in {"mkdir", "tmp", "persist"} THEN [file |-> file, ret |-> "err"]
            ELSE IF fault = "write" THEN [file |-> Some(NotToml), ret |-> "err"]
            ELSE [file |-> Some(to_string(edited)), ret |-> "ok"]

\* lines 40-85: the content of config.toml after the call, and what the call
\* returns
persist_overrides(file, profile, overrides, fault) ==
    IF file # None /\ fault = "read" THEN [file |-> file, ret |-> "err"]
    ELSE IF file # None /\ parse_document(file[1]) = None THEN [file |-> file, ret |-> "err"]
    ELSE LET doc == IF file = None THEN {} ELSE parse_document(file[1])[1]
             effective_profile == IF profile # None THEN profile ELSE LoadProfile(file)
             edited == ApplyOverrides(doc, effective_profile, overrides, 1)
         IN IF fault \in {"mkdir", "tmp", "write", "persist"}
            THEN [file |-> file, ret |-> "err"]
            ELSE [file |-> Some(to_string(edited)), ret |-> "ok"]

\* lines 24-36
set_default_model_and_effort_for_profile(file, profile_override, model, effort, fault) ==
    persist_overrides(file, profile_override,
                      <<[segments |-> <<K("model")>>, val |-> model],
                        [segments |-> <<K("model_reasoning_effort")>>, val |-> effort]>>,
                      fault)

\* The items config.toml may hold before a call.
SeedItems ==
    {<<<<K("profile")>>, Str(K("o3"))>>,
     <<<<K("profile")>>, Str(DottedName)>>,
     <<<<K("profile")>>, Scalar>>,
     <<<<K("model")>>, Str(K("old"))>>,
     <<<<K("model_reasoning_effort")>>, Str(K("low"))>>,
     <<<<K("profiles")>>, Str(K("x"))>>,
     <<<<K("profiles"), K("o3"), K("model")>>, Str(K("old"))>>,
     <<<<K("profiles"), K("my")>>, Str(K("old"))>>,
     <<<<K("foo")>>, Str(K("bar"))>>,
     <<<<K("a"), K("b")>>, Str(K("old"))>>}

\* The document that holds the items of S and the tables above them.
DocOf(S) ==
    S \cup {<<SubSeq(e[1], 1, k), TABLE>> : e \in {x \in S : Len(x[1]) = 3}, k \in 1..2}
      \cup {<<SubSeq(e[1], 1, k), TABLE>> : e \in {x \in S : Len(x[1]) = 2}, k \in 1..1}

\* No item of S lies at or below another.
Disjoint(S) == \A e, g \in S : IsPrefix(e[1], g[1]) => e = g

ConfigFiles ==
    {None, Some(NotToml)}
        \cup {Some(to_string(DocOf(S))) : S \in {T \in SubsetsUpTo(SeedItems, 2) : Disjoint(T)}}

ProfileArgs == {None, Some(K("o3")), Some(DottedName)}

OverrideArgs ==
    {[segments |-> <<K("x")>>, val |-> K("y")],
     [segments |-> <<K("a")>>, val |-> K("v")],
     [segments |-> <<K("a")>>, val |-> K("w")],
     [segments |-> <<K("a"), K("b")>>, val |-> K("v")],
     [segments |-> <<K("foo"), K("bar"), K("baz")>>, val |-> K("ok")],
     [segments |-> <<K("profiles"), K("p1"), K("model")>>, val |-> K("gpt-5")],
     [segments |-> <<>>, val |-> K("v")]}

InitConfig ==
    /\ cfg \in {[pc |-> "idle", file |-> f, before |-> f, op |-> "", profile |-> None,
                 overrides |-> <<>>, ret |-> ""] : f \in ConfigFiles}
    /\ fs = {}
    /\ phase = "idle"
    /\ page_size = 0
    /\ cursor = None
    /\ w = InitWalk(0, None)
    /\ result = None
    /\ served = {}
    /\ capSeen = FALSE
    /\ dirty = FALSE
    /\ snaps = {}
    /\ seen = {}
    /\ lastDayFiles = 0
    /\ env = Sound
    /\ err = ""
    /\ hd = IdleHd
    /\ rt = IdleRt

configFrame == <<fs, phase, page_size, cursor, w, result, served, capSeen, dirty, snaps,
                 seen, lastDayFiles, env, err, hd, rt>>

\* A call of set_default_model_and_effort_for_profile
SetDefaultModel ==
    /\ cfg.pc = "idle"
    /\ \E p \in ProfileArgs : \E model \in {K("gpt-5"), K("o3")} :
       \E effort \in {K("high"), K("minimal")} : \E fault \in Faults :
           LET r == set_default_model_and_effort_for_profile(cfg.file, p, model, effort, fault)
           IN cfg' = [cfg EXCEPT !.pc = "done", !.op = "set_default", !.profile = p,
                                 !.overrides = <<[segments |-> <<K("model")>>, val |-> model],
                                                 [segments |-> <<K("model_reasoning_effort")>>,
                                                  val |-> effort]>>,
                                 !.file = r.file, !.ret = r.ret]
    /\ UNCHANGED configFrame

\* A call of persist_overrides
PersistOverrides ==
    /\ cfg.pc = "idle"
    /\ \E p \in ProfileArgs : \E ovs \in SeqsUpTo(OverrideArgs, MaxOverrides) :
       \E fault \in Faults :
           LET r == persist_overrides(cfg.file, p, ovs, fault)
           IN cfg' = [cfg EXCEPT !.pc = "done", !.op = "persist", !.profile = p,
                                 !.overrides = ovs, !.file = r.file, !.ret = r.ret]
    /\ UNCHANGED configFrame

NextConfig ==
    \/ SetDefaultModel
    \/ PersistOverrides

\* One call of the config editor on any config.toml.
SpecConfig == InitConfig /\ [][NextConfig]_vars

\* The document of a config.toml content that parses (none for no file).
DocIn(file) == IF file = None THEN {} ELSE file[1].doc

\* The profile of a call: the override if given, otherwise the string at the
\* top-level key `profile` of config.toml before the call.
ProfileOfCall ==
    IF cfg.profile # None THEN cfg.profile
    ELSE IF \E v \in {K("o3"), DottedName, K("x"), K("old")} :
                <<<<K("profile")>>, Str(v)>> \in DocIn(cfg.before)
    THEN Some((CHOOSE e \in DocIn(cfg.before) : e[1] = <<K("profile")>>)[2][2])
    ELSE None

\* C16: a successful set_default_model_and_effort_for_profile with a profile P
\* (the override, else the top-level `profile` string of the existing file)
\* leaves the strings model and effort at profiles.P.model and
\* profiles.P.model_reasoning_effort, P being one key even when it holds dots
\* or spaces, and leaves the top-level model and model_reasoning_effort as
\* they were; without a profile it writes the two top-level keys.
C16_ProfileAwareWrites ==
    (cfg.pc = "done" /\ cfg.op = "set_default" /\ cfg.ret = "ok") =>
        LET before == DocIn(cfg.before)
            after == DocIn(cfg.file)
            P == ProfileOfCall
        IN /\ cfg.file # None
           /\ cfg.file[1].valid
           /\ \A i \in 1..2 :
                LET key == cfg.overrides[i].segments[1]
                    val == cfg.overrides[i].val
                IN IF P # None
                   THEN /\ <<<<K("profiles"), P[1], key>>, Str(val)>> \in after
                        /\ <<<<K("profiles"), P[1]>>, TABLE>> \in after
                        /\ {e \in after : e[1] = <<key>>} = {e \in before : e[1] = <<key>>}
                        /\ \A e \in after : e[1] = <<K("profiles"), P[1], key>> => e[2] = Str(val)
                   ELSE /\ <<<<key>>, Str(val)>> \in after
                        /\ \A e \in after : e[1] = <<key>> => e[2] = Str(val)
           /\ (P # None /\ Len(P[1]) > 1) =>
                {e \in after : IsPrefix(<<K("profiles"), K(P[1][1])>>, e[1])}
                    = {e \in before : IsPrefix(<<K("profiles"), K(P[1][1])>>, e[1])}

\* C16 witness: the profile "my.team name" comes from the file, which also has
\* a top-level model, and the call succeeded.
C16_Witness ==
    /\ cfg.pc = "done"
    /\ cfg.op = "set_default"
    /\ cfg.ret = "ok"
    /\ cfg.profile = None
    /\ ProfileOfCall = Some(DottedName)
    /\ <<<<K("model")>>, Str(K("old"))>> \in DocIn(cfg.before)

\* C17: a call of persist_overrides that returns an error leaves the content
\* of config.toml as it was before the call.
C17_FailedWriteLeavesFile ==
    (cfg.pc = "done" /\ cfg.ret = "err") => cfg.file = cfg.before

\* C17 witness: the call failed after the document was edited, on a
\* config.toml that exists and parses.
C17_Witness ==
    /\ cfg.pc = "done"
    /\ cfg.ret = "err"
    /\ cfg.op = "persist"
    /\ cfg.before # None
    /\ cfg.before[1].valid
    /\ cfg.overrides # <<>>

Comparable(p, q) == IsPrefix(p, q) \/ IsPrefix(q, p)

\* C18 (as claimed): after a successful persist_overrides without effective
\* profile every override with at least one segment reads back: the document
\* has the string v at its path.
C18_AllOverridesReadBack ==
    (cfg.pc = "done" /\ cfg.op = "persist" /\ cfg.ret = "ok" /\ ProfileOfCall = None) =>
        \A i \in 1..Len(cfg.overrides) :
            cfg.overrides[i].segments # <<>> =>
                <<cfg.overrides[i].segments, Str(cfg.overrides[i].val)>> \in DocIn(cfg.file)

\* C18 (amended): after a successful persist_overrides without effective
\* profile, an override with at least one segment reads back unless a later
\* override of the same call has a path equal to its path, a prefix of it
\* or an extension of it; the tables above a path that reads back exist.
C18_UnshadowedOverridesReadBack ==
    (cfg.pc = "done" /\ cfg.op = "persist" /\ cfg.ret = "ok" /\ ProfileOfCall = None) =>
        \A i \in 1..Len(cfg.overrides) :
            LET segs == cfg.overrides[i].segments
                shadowed == \E j \in (i + 1)..Len(cfg.overrides) :
                                /\ cfg.overrides[j].segments # <<>>
                                /\ Comparable(segs, cfg.overrides[j].segments)
            IN (segs # <<>> /\ ~shadowed) =>
                /\ <<segs, Str(cfg.overrides[i].val)>> \in DocIn(cfg.file)
                /\ \A k \in 1..(Len(segs) - 1) :
                       <<SubSeq(segs, 1, k), TABLE>> \in DocIn(cfg.file)

\* C18 witness: a scalar on the way was replaced by a table and two overrides
\* of one call read back.
C18_Witness ==
    /\ cfg.pc = "done"
    /\ cfg.op = "persist"
    /\ cfg.ret = "ok"
    /\ ProfileOfCall = None
    /\ <<<<K("foo")>>, Str(K("bar"))>> \in DocIn(cfg.before)
    /\ Len(cfg.overrides) = 2
    /\ cfg.overrides[1].segments = <<K("foo"), K("bar"), K("baz")>>
    /\ cfg.overrides[2].segments = <<K("x")>>
    /\ <<<<K("foo"), K("bar"), K("baz")>>, Str(K("ok"))>> \in DocIn(cfg.file)
    /\ <<<<K("x")>>, Str(K("y"))>> \in DocIn(cfg.file)

(* ----------------------- the anchor and the shards ---------------------- *)
(* Checked under SpecArgs: calls with any cursor string, on trees that may   *)
(* hold a rollout file in the shard of another date.                         *)

\* The key a cursor string that decodes stands for.
KeyOfToken(token) ==
    KeyOf(CHOOSE g \in WriterFiles : g.name.ts = token[1] /\ g.name.id[2] = token[2][2])

AnchoredCall == phase = "done" /\ result # None /\ cursor # None /\ cursor[1] \in GoodTokens

KeysDescending(its) ==
    \A i, j \in 1..Len(its) : i < j => KeyLess(KeyOf(its[j].path), KeyOf(its[i].path))

\* No item has a larger key than an item before it.
KeysNotAscending(its) ==
    \A i, j \in 1..Len(its) : i < j => ~KeyLess(KeyOf(its[i].path), KeyOf(its[j].path))

\* The items are the min(page_size, m) largest files among the m rollout
\* files of the tree below the anchor key, in descending key order.
LargestBelow(its, anchor) ==
    LET below == {f \in Rollouts(fs) : KeyLess(KeyOf(f), anchor)}
        m == Cardinality(below)
    IN /\ Len(its) = IF page_size < m THEN page_size ELSE m
       /\ Cardinality(ItemPaths(its)) = Len(its)
       /\ ItemPaths(its) \subseteq below
       /\ \A f \in ItemPaths(its) : \A g \in below \ ItemPaths(its) :
              KeyLess(KeyOf(g), KeyOf(f))
       /\ KeysDescending(its)

\* C19 (as claimed): a call with a cursor that decodes to K, on any tree and
\* whether or not a file has the key K, that did not reach the scan cap
\* returns the min(page_size, m) largest files among the m rollout files
\* with a key below K, in descending key order.
C19_AnchorIsExclusiveBound ==
    (AnchoredCall /\ ~Page.reached_scan_cap) => LargestBelow(Page.items, KeyOfToken(cursor[1]))

\* C19 (amended): the same, on a tree whose rollout files all lie in the
\* day shard of their own timestamp and have distinct keys.
C19_AnchorIsExclusiveBoundInShards ==
    (/\ AnchoredCall
     /\ ~Page.reached_scan_cap
     /\ DistinctKeys(fs)
     /\ \A f \in Rollouts(fs) : InOwnShard(f)) =>
        LargestBelow(Page.items, KeyOfToken(cursor[1]))

\* C19 witness: no file has the key of the cursor, a newer file is skipped,
\* and the page is cut at page_size with an older file left.
C19_Witness ==
    /\ AnchoredCall
    /\ ~Page.reached_scan_cap
    /\ \A f \in Rollouts(fs) : InOwnShard(f) /\ KeyOf(f) # KeyOfToken(cursor[1])
    /\ \E f \in Rollouts(fs) : KeyLess(KeyOfToken(cursor[1]), KeyOf(f))
    /\ Len(Page.items) = page_size
    /\ page_size > 0
    /\ \E f \in Rollouts(fs) : KeyLess(KeyOf(f), LastKey(Page.items))

\* The date of the shard a file lies in.
ShardOf(f) == <<DirRank(SubSeq(f.dir, 1, 1)), DirRank(SubSeq(f.dir, 1, 2)), DirRank(f.dir)>>

DateLess(a, b) ==
    \/ a[1] < b[1]
    \/ a[1] = b[1] /\ a[2] < b[2]
    \/ a[1] = b[1] /\ a[2] = b[2] /\ a[3] < b[3]

AtomicOverrides == {<<>>} \cup {<<o>> : o \in OverrideArgs}

\* A file that has been created and not written yet.
EmptyText == to_string({})

\* Variant: the document is written over config.toml itself.
write_config(c, text) == [c EXCEPT !.file = Some(text)]

\* line 81: std::fs::write(tmp_file.path(), ...) has written `text` so far
write_tmp(c, text) == [c EXCEPT !.tmp = Some(text)]

\* line 82: the rename of the temporary file over config.toml
persist_tmp(c) == [c EXCEPT !.file = c.tmp, !.tmp = None]

InitAtomic ==
    /\ cfg \in {[pc |-> "idle", file |-> f, before |-> f, op |-> "", profile |-> None,
                 overrides |-> <<>>, ret |-> "", doc |-> {}, tmp |-> None, obs |-> f] :
                   f \in ConfigFiles}
    /\ fs = {}
    /\ phase = "idle"
    /\ page_size = 0
    /\ cursor = None
    /\ w = InitWalk(0, None)
    /\ result = None
    /\ served = {}
    /\ capSeen = FALSE
    /\ dirty = FALSE
    /\ snaps = {}
    /\ seen = {}
    /\ lastDayFiles = 0
    /\ env = Sound
    /\ err = ""
    /\ hd = IdleHd
    /\ rt = IdleRt

\* lines 46-77: the file is read and parsed and the overrides are applied
ReadAndEdit ==
    /\ cfg.pc = "idle"
    /\ IF cfg.file = None THEN TRUE ELSE parse_document(cfg.file[1]) # None
    /\ \E p \in ProfileArgs : \E ovs \in AtomicOverrides :
        LET doc == IF cfg.file = None THEN {} ELSE parse_document(cfg.file[1])[1]
            effective_profile == IF p # None THEN p ELSE LoadProfile(cfg.file)
        IN cfg' = [cfg EXCEPT !.pc = "mkdir", !.op = "persist", !.profile = p,
                              !.overrides = ovs,
                              !.doc = ApplyOverrides(doc, effective_profile, ovs, 1)]
    /\ UNCHANGED configFrame

\* lines 46-51: the file cannot be read, or is not TOML
ReadFails ==
    /\ cfg.pc = "idle"
    /\ cfg.file # None
    /\ \E p \in ProfileArgs : \E ovs \in AtomicOverrides :
        cfg' = [cfg EXCEPT !.pc = "done", !.op = "persist", !.profile = p,
                           !.overrides = ovs, !.ret = "err"]
    /\ UNCHANGED configFrame

\* line 79
CreateDirAll ==
    /\ cfg.pc = "mkdir"
    /\ cfg' = [cfg EXCEPT !.pc = "tmp"]
    /\ UNCHANGED configFrame

\* line 80
NewTempFile ==
    /\ cfg.pc = "tmp"
    /\ cfg' = [write_tmp(cfg, EmptyText) EXCEPT !.pc = "write"]
    /\ UNCHANGED configFrame

\* line 81, a first part of the text is on disk: the file ends inside a line
WritePart ==
    /\ cfg.pc = "write"
    /\ cfg.tmp = Some(EmptyText)
    /\ cfg.doc # {}
    /\ cfg' = write_tmp(cfg, NotToml)
    /\ UNCHANGED configFrame

\* line 81, the whole text is on disk
WriteAll ==
    /\ cfg.pc = "write"
    /\ cfg' = [write_tmp(cfg, to_string(cfg.doc)) EXCEPT !.pc = "persist"]
    /\ UNCHANGED configFrame

\* lines 82-84
Persist ==
    /\ cfg.pc = "persist"
    /\ cfg' = [persist_tmp(cfg) EXCEPT !.pc = "done", !.ret = "ok"]
    /\ UNCHANGED configFrame

\* The `?` of lines 79-82: the statement fails, the temporary file is removed
\* when tmp_file is dropped.
StatementFails ==
    /\ cfg.pc \in {"mkdir", "tmp", "write", "persist"}
    /\ cfg' = [cfg EXCEPT !.pc = "done", !.ret = "err", !.tmp = None]
    /\ UNCHANGED configFrame

\* Another process reads config.toml.
ReaderReads ==
    /\ cfg.obs # cfg.file
    /\ cfg' = [cfg EXCEPT !.obs = cfg.file]
    /\ UNCHANGED configFrame

NextAtomic ==
    \/ ReadAndEdit
    \/ ReadFails
    \/ CreateDirAll
    \/ NewTempFile
    \/ WritePart
    \/ WriteAll
    \/ Persist
    \/ StatementFails
    \/ ReaderReads

\* One call of persist_overrides, statement by statement, and a reader.
SpecAtomic == InitAtomic /\ [][NextAtomic]_vars

\* C21: at every instant of a persist_overrides call config.toml holds, and a
\* reader has read, either the whole content it had before the call or the
\* whole new document, which is the one the call leaves when it succeeds; the
\* text being written is in the temporary file only.
C21_AtomicReplace ==
    LET new == Some(to_string(cfg.doc)) IN
    /\ cfg.pc \in {"mkdir", "tmp", "write", "persist"} => cfg.file = cfg.before
    /\ cfg.pc # "idle" =>
        /\ cfg.file = cfg.before \/ cfg.file = new
        /\ cfg.obs = cfg.before \/ cfg.obs = new
    /\ (cfg.pc = "done" /\ cfg.ret = "ok") =>
        /\ cfg.file = new
        /\ cfg.file = persist_overrides(cfg.before, cfg.profile, cfg.overrides, "none").file
    /\ (cfg.pc = "done" /\ cfg.ret = "err") => cfg.file = cfg.before

\* C21 witness: a new document that differs from the old one is written, in
\* the temporary file, the rename has not happened and config.toml and the
\* reader still have the old content.
C21_Witness ==
    /\ cfg.pc = "persist"
    /\ cfg.before # None
    /\ cfg.before # Some(to_string(cfg.doc))
    /\ cfg.tmp = Some(to_string(cfg.doc))
    /\ cfg.obs = cfg.before
    /\ cfg.doc # {}

(* --------------------------- a chain to its end ------------------------- *)

\* Trees that follow the layout: every rollout file in the shard of its own
\* timestamp, two of them with one key.
InitChain ==
    /\ fs \in SubsetsUpTo(WriterFiles \cup {TwinFile}, MaxFiles)
    /\ phase = "idle"
    /\ page_size = 0
    /\ cursor = None
    /\ w = InitWalk(0, None)
    /\ result = None
    /\ served = {}
    /\ capSeen = FALSE
    /\ dirty = FALSE
    /\ snaps = {}
    /\ seen = {}
    /\ lastDayFiles = 0
    /\ env = Sound
    /\ err = ""
    /\ hd = IdleHd
    /\ rt = IdleRt
    /\ cfg = IdleCfg

\* The first call of the one chain of a behaviour.
StartChain ==
    /\ phase = "idle"
    /\ Start

NextChain ==
    \/ StartChain
    \/ FollowUp
    \/ ListYears
    \/ YearsDone
    \/ YearCapBreak
    \/ EnterYear
    \/ MonthsDone
    \/ MonthCapBreak
    \/ EnterMonth
    \/ DaysDone
    \/ DayCapBreak
    \/ EnterDay
    \/ FilesDone
    \/ VisitFile
    \/ Return

\* One chain on a tree nobody writes to, by a caller that goes on as long as
\* it is given a next_cursor; every call returns.
SpecChain == InitChain /\ [][NextChain]_vars /\ WF_vars(NextChain)

\* A page is returned to a call that had a cursor, with a next_cursor: the
\* key of the new cursor is below the key of the old one.
CursorDecreases ==
    (/\ phase = "walk"
     /\ phase' = "done"
     /\ page_size >= 1
     /\ cursor # None
     /\ result'[1].next_cursor # None) =>
        KeyLess(KeyOfToken(result'[1].next_cursor[1]), KeyOfToken(cursor[1]))

ChainEnded == phase = "done" /\ result # None /\ Page.next_cursor = None

\* C22: under SpecChain the keys of the successive next_cursor values of a
\* chain are strictly decreasing, and the chain reaches a page with
\* next_cursor = None.
C22_ChainTerminates == [][CursorDecreases]_vars /\ <>ChainEnded

\* C22 witness: the chain ended at its third page or later, having passed a
\* page that reported the scan cap.
C22_Witness ==
    /\ ChainEnded
    /\ page_size >= 1
    /\ Cardinality(served) >= 2
    /\ cursor # None
    /\ capSeen

(* ----------------------- the process-group controller ------------------- *)
(* local_exec_runtime.rs, UnixLocalExecRuntime.  rt.pgid is the content of   *)
(* the mutex: None or Some(<<group, n>>) where n, kept for the properties,   *)
(* tells that the value comes from the n-th recording.  rt.lock is the       *)
(* thread that holds the mutex, or "free".  rt.pc[t] is where thread t is in *)
(* its call and rt.val[t] the local `value` of record_child.  The history:   *)
(* rt.calls counts the calls made, rt.recs lists the groups recorded, in     *)
(* order, rt.dead holds the recordings made before a clear() that has        *)
(* returned, rt.signals lists the recordings whose group got a SIGINT.       *)

MaxCalls == 4

Threads == {"a", "b", "c"}

\* The pids of the children that are spawned.
Pids == {101, 102}

\* libc::getpgid(pid): the child leads its own group (configure_child), or
\* the call fails.
Getpgid(pid) == {pid, -1}

\* line 50
ValueToRecord(pid, pgid) == IF pgid > 0 THEN pgid ELSE pid

\* Variant: the recorded value is read and left in place.
guard_read(r) == r

\* line 65: guard.take()
guard_take(r) == [r EXCEPT !.pgid = None]

\* UnixLocalExecRuntime::new(), lines 27-31, and threads that have made no call
InitRuntime ==
    /\ rt = [pgid |-> None, lock |-> "free", pc |-> [t \in Threads |-> "idle"],
             val |-> [t \in Threads |-> 0], calls |-> 0, recs |-> <<>>, dead |-> {},
             signals |-> <<>>]
    /\ fs = {}
    /\ phase = "idle"
    /\ page_size = 0
    /\ cursor = None
    /\ w = InitWalk(0, None)
    /\ result = None
    /\ served = {}
    /\ capSeen = FALSE
    /\ dirty = FALSE
    /\ snaps = {}
    /\ seen = {}
    /\ lastDayFiles = 0
    /\ env = Sound
    /\ err = ""
    /\ hd = IdleHd
    /\ cfg = IdleCfg

runtimeFrame == <<fs, phase, page_size, cursor, w, result, served, capSeen, dirty, snaps,
                  seen, lastDayFiles, env, err, hd, cfg>>

\* record_child(None), lines 45-46: nothing happens
RecordNone(t) ==
    /\ rt.pc[t] = "idle"
    /\ rt.calls < MaxCalls
    /\ rt' = [rt EXCEPT !.calls = rt.calls + 1]
    /\ UNCHANGED runtimeFrame

\* record_child(Some(pid)), lines 46-50
RecordCall(t) ==
    /\ rt.pc[t] = "idle"
    /\ rt.calls < MaxCalls
    /\ \E pid \in Pids : \E pgid \in Getpgid(pid) :
        rt' = [rt EXCEPT !.calls = rt.calls + 1, !.pc[t] = "record",
                         !.val[t] = ValueToRecord(pid, pgid)]
    /\ UNCHANGED runtimeFrame

\* lines 51-53: the mutex is taken, written and released
RecordStore(t) ==
    /\ rt.pc[t] = "record"
    /\ rt.lock = "free"
    /\ rt' = [rt EXCEPT !.pgid = Some(<<rt.val[t], Len(rt.recs) + 1>>),
                        !.recs = Append(rt.recs, rt.val[t]),
                        !.pc[t] = "idle"]
    /\ UNCHANGED runtimeFrame

\* clear() is called, line 57
ClearCall(t) ==
    /\ rt.pc[t] = "idle"
    /\ rt.calls < MaxCalls
    /\ rt' = [rt EXCEPT !.calls = rt.calls + 1, !.pc[t] = "clear"]
    /\ UNCHANGED runtimeFrame

\* lines 58-60
ClearStore(t) ==
    /\ rt.pc[t] = "clear"
    /\ rt.lock = "free"
    /\ rt' = [rt EXCEPT !.pgid = None, !.dead = 1..Len(rt.recs), !.pc[t] = "idle"]
    /\ UNCHANGED runtimeFrame

\* interrupt() is called, line 63
InterruptCall(t) ==
    /\ rt.pc[t] = "idle"
    /\ rt.calls < MaxCalls
    /\ rt' = [rt EXCEPT !.calls = rt.calls + 1, !.pc[t] = "interrupt"]
    /\ UNCHANGED runtimeFrame

\* lines 64-65 with nothing recorded: the mutex is taken and released
InterruptNothing(t) ==
    /\ rt.pc[t] = "interrupt"
    /\ rt.lock = "free"
    /\ rt.pgid = None
    /\ rt' = [rt EXCEPT !.pc[t] = "idle"]
    /\ UNCHANGED runtimeFrame

\* lines 64-65 with a group recorded: the mutex is taken and kept, the value
\* is taken
InterruptTake(t) ==
    /\ rt.pc[t] = "interrupt"
    /\ rt.lock = "free"
    /\ rt.pgid # None
    /\ rt' = [guard_take(rt) EXCEPT !.lock = t, !.pc[t] = "kill", !.val[t] = rt.pgid[1][2]]
    /\ UNCHANGED runtimeFrame

\* lines 67-70: kill(-pgid, SIGINT), then the guard is dropped
InterruptKill(t) ==
    /\ rt.pc[t] = "kill"
    /\ rt' = [rt EXCEPT !.signals = Append(rt.signals, rt.val[t]), !.lock = "free",
                        !.pc[t] = "idle"]
    /\ UNCHANGED runtimeFrame

NextRuntime ==
    \/ \E t \in Threads : RecordNone(t)
    \/ \E t \in Threads : RecordCall(t)
    \/ \E t \in Threads : RecordStore(t)
    \/ \E t \in Threads : ClearCall(t)
    \/ \E t \in Threads : ClearStore(t)
    \/ \E t \in Threads : InterruptCall(t)
    \/ \E t \in Threads : InterruptNothing(t)
    \/ \E t \in Threads : InterruptTake(t)
    \/ \E t \in Threads : InterruptKill(t)

\* Threads that call record_child, clear and interrupt on one runtime.
SpecRuntime == InitRuntime /\ [][NextRuntime]_vars

\* No recording is signalled twice, and every signal is that of a recording.
SignalledOnce ==
    /\ \A i, j \in 1..Len(rt.signals) : i # j => rt.signals[i] # rt.signals[j]
    /\ \A i \in 1..Len(rt.signals) : rt.signals[i] \in 1..Len(rt.recs)

\* One step of the runtime: a signal is sent for a recording that no clear()
\* has followed, by a thread that took it, and empties nothing else; an
\* interrupt() that finds nothing sends nothing; record_child(None) changes
\* nothing of the runtime; record_child(Some(pid)) puts its group in place of
\* whatever was recorded; interrupt() leaves nothing recorded.
RuntimeStep ==
    /\ Len(rt'.signals) > Len(rt.signals) =>
        /\ rt'.signals[Len(rt'.signals)] \notin rt.dead
        /\ rt.pgid = None
        /\ rt'.pgid = None
    /\ (\E t \in Threads : rt.pc[t] = "interrupt" /\ rt'.pc[t] # "interrupt") =>
        /\ rt'.pgid = None
        /\ rt.pgid = None => rt'.signals = rt.signals /\ rt'.lock = "free"
    /\ (\A t \in Threads : rt'.pc[t] = rt.pc[t]) =>
        /\ rt'.pgid = rt.pgid
        /\ rt'.signals = rt.signals
    /\ Len(rt'.recs) > Len(rt.recs) =>
        /\ rt'.pgid # None
        /\ rt'.pgid[1][1] = rt'.recs[Len(rt'.recs)]
        /\ rt'.pgid[1][1] \in Pids

\* C23: under SpecRuntime, in every interleaving of record_child, clear and
\* interrupt calls, a recording is signalled at most once (interrupt takes
\* the value under the mutex and leaves None), never after a clear() that
\* returned after the recording was made, an interrupt() with nothing
\* recorded sends no signal, record_child(None) changes nothing and
\* record_child(Some(pid)) replaces what was recorded.
C23_SignalledAtMostOnce == []SignalledOnce /\ [][RuntimeStep]_vars

\* C23 witness: the first recording was signalled by an interrupt(), a second
\* recording was followed by a clear(), and every call has returned.
C23_Witness ==
    /\ Len(rt.signals) = 1
    /\ Len(rt.recs) = 2
    /\ rt.signals[1] = 1
    /\ 2 \in rt.dead
    /\ rt.pgid = None
    /\ \A t \in Threads : rt.pc[t] = "idle"

====
